---------------------------- MODULE Spec2Model ----------------------------
(***************************************************************************)
(* Model of scrape_and_notify.py: one run of main() fetches the IZKO page, *)
(* extracts the 'Cumhuriyet' / 'YENI' price with four strategies, compares *)
(* it with state/last_price.json and notifies Telegram on a change.        *)
(*                                                                         *)
(* Text is a sequence of one-character strings.  Three characters stand    *)
(* for longer pieces of text: "C" is one occurrence of the word            *)
(* 'Cumhuriyet' (any case), "Y" one occurrence of 'YENI'/'YENİ' (any       *)
(* case), "x" any other letter.  "nl" is a newline, "nbsp" is U+00A0.      *)
(* In markup, "<" opens a tag and ">" closes it; what is between them is   *)
(* the tag's attribute value.                                              *)
(*                                                                         *)
(* A Decimal is [c |-> coefficient, e |-> digits after the point], the     *)
(* value c / 10^e, as Python's decimal keeps it; the texts here never      *)
(* carry a sign.                                                           *)
(***************************************************************************)
EXTENDS Integers, Sequences, FiniteSets, TLC

None == [none |-> TRUE]

Min(a, b) == IF a <= b THEN a ELSE b
Max(a, b) == IF a >= b THEN a ELSE b

\* the least element of a set of positions, 0 when it is empty
MinOrZero(S) == IF S = {} THEN 0 ELSE CHOOSE x \in S : \A y \in S : x <= y

\* the greatest element of a set of positions, 0 when it is empty
MaxOrZero(S) == IF S = {} THEN 0 ELSE CHOOSE x \in S : \A y \in S : x >= y

\* the first element of a sequence of values that is not None, else None
FirstNonNone(vs) ==
    IF \A k \in DOMAIN vs : vs[k] = None THEN None
    ELSE vs[MinOrZero({k \in DOMAIN vs : vs[k] # None})]

RECURSIVE Pow10(_)
Pow10(n) == IF n = 0 THEN 1 ELSE 10 * Pow10(n - 1)

RECURSIVE Concat(_)
Concat(ss) == IF ss = <<>> THEN <<>> ELSE Head(ss) \o Concat(Tail(ss))

Contains(s, ch) == \E i \in 1..Len(s) : s[i] = ch

(***************************************************************************)
(* Character classes of the regular expressions.                           *)
(***************************************************************************)
DigitChars == <<"0", "1", "2", "3", "4", "5", "6", "7", "8", "9">>

IsDigit(ch) == ch \in {"0", "1", "2", "3", "4", "5", "6", "7", "8", "9"}

DigitVal(ch) == MinOrZero({i \in 1..10 : DigitChars[i] = ch}) - 1

\* \s
SpaceChars == {" ", "nbsp", "nl"}
IsSpace(ch) == ch \in SpaceChars

\* [0-9\.\,\s]
NumChars == {"0", "1", "2", "3", "4", "5", "6", "7", "8", "9", ".", ",", " ", "nbsp", "nl"}
IsNumChar(ch) == ch \in NumChars

\* [\s:]
SpaceOrColonChars == {" ", "nbsp", "nl", ":"}

\* [:\-]
IsDash(ch) == ch \in {":", "-"}

\* [0\s\.,]
IsZeroNoise(ch) == ch \in {"0", " ", "nbsp", "nl", ".", ","}

\* the length of the longest run of characters of a class that starts at s[from]
RunLen(s, from, class) ==
    MinOrZero({j \in from..(Len(s) + 1) : j = Len(s) + 1 \/ s[j] \notin class}) - from

\* str.strip()
LStrip(s) == SubSeq(s, 1 + RunLen(s, 1, SpaceChars), Len(s))
RStrip(s) == SubSeq(s, 1, MaxOrZero({i \in 1..Len(s) : ~IsSpace(s[i])}))
Strip(s) == LStrip(RStrip(s))

(***************************************************************************)
(* Decimal                                                                 *)
(***************************************************************************)
RECURSIVE DigitsToNat(_)
DigitsToNat(s) ==
    IF s = <<>> THEN 0
    ELSE 10 * DigitsToNat(SubSeq(s, 1, Len(s) - 1)) + DigitVal(s[Len(s)])

\* Decimal(text) for a text without sign or exponent: after stripping
\* whitespace, digits with at most one point and at least one digit;
\* InvalidOperation (None here) otherwise
ParseStripped(s) ==
    IF /\ \A i \in 1..Len(s) : s[i] = "pt" \/ IsDigit(s[i])
       /\ Cardinality({i \in 1..Len(s) : s[i] = "pt"}) <= 1
       /\ \E i \in 1..Len(s) : s[i] # "pt"
    THEN [c |-> DigitsToNat(SelectSeq(s, LAMBDA ch : ch # "pt")),
          e |-> IF Contains(s, "pt")
                THEN Len(s) - MinOrZero({i \in 1..Len(s) : s[i] = "pt"})
                ELSE 0]
    ELSE None

ParseDecimal(text) == ParseStripped(Strip(text))

IntPart(d) == d.c \div Pow10(d.e)
FracPart(d) == d.c % Pow10(d.e)

\* d < Decimal(n) for a natural n
DecLtNat(d, n) == IntPart(d) < n

\* a < b
DecLt(a, b) ==
    \/ IntPart(a) < IntPart(b)
    \/ /\ IntPart(a) = IntPart(b)
       /\ FracPart(a) * Pow10(Max(a.e, b.e) - a.e)
            < FracPart(b) * Pow10(Max(a.e, b.e) - b.e)

\* a == b (numerically: Decimal("1000.0") == Decimal("1000"))
DecEq(a, b) == ~DecLt(a, b) /\ ~DecLt(b, a)

\* round half to even: q + f/one with 0 <= f < one
RoundHalfEven(q, f, one) ==
    IF 2 * f > one \/ (2 * f = one /\ q % 2 = 1) THEN q + 1 ELSE q

\* a variant of Quantize that truncates instead of rounding
QuantizeTruncating(d) == [c |-> IntPart(d), e |-> 0]

\* Decimal.quantize(Decimal("1")): ROUND_HALF_EVEN of the default context
Quantize(d) == [c |-> RoundHalfEven(IntPart(d), FracPart(d), Pow10(d.e)), e |-> 0]

\* max(parsed): the first of the largest elements
DecMax(ds) ==
    ds[MinOrZero({i \in DOMAIN ds : \A j \in DOMAIN ds : ~DecLt(ds[i], ds[j])})]

(***************************************************************************)
(* _turkish_number_to_decimal                                              *)
(***************************************************************************)
\* .replace("\xa0", " ").replace(" ", "").replace(".", "")
Unseparated(s) == SelectSeq(s, LAMBDA ch : ch \notin {" ", "nbsp", "."})

\* .replace(",", "."): "pt" is the decimal point
CommaToPoint(s) == [i \in 1..Len(s) |-> IF s[i] = "," THEN "pt" ELSE s[i]]

turkish_number_to_decimal(num_text) ==
    ParseDecimal(CommaToPoint(Unseparated(Strip(num_text))))

(***************************************************************************)
(* Markup.  A page is a sequence of blocks:                                *)
(*   [t |-> "text",  s |-> text]   text at the top of the document; a tag  *)
(*                                 inside it is a void tag such as <br>    *)
(*   [t |-> "div",   s |-> text]   the same text inside one element        *)
(*   [t |-> "table", thead, tbody, rows]   a table; rows is a sequence of  *)
(*        rows, a row a sequence of cells [txt |-> text, attrs |-> the     *)
(*        cell's string attribute values]; with thead the first row is in  *)
(*        <thead>, with tbody the other rows are in <tbody>.               *)
(***************************************************************************)
Tag(value) == <<"<">> \o value \o <<">">>

\* the attributes inside a tag: name="value" name="value"
RECURSIVE AttrText(_)
AttrText(attrs) ==
    IF attrs = <<>> THEN <<>> ELSE <<"x">> \o Head(attrs) \o AttrText(Tail(attrs))

RawCell(cell) == Tag(AttrText(cell.attrs)) \o cell.txt \o Tag(<<>>)

RawRow(row) ==
    Tag(<<>>) \o Concat([i \in 1..Len(row) |-> RawCell(row[i])]) \o Tag(<<>>)

RawRows(rows) == Concat([i \in 1..Len(rows) |-> RawRow(rows[i])])

\* the rows that are not in the table's thead
RestRows(tb) == IF tb.thead THEN Tail(tb.rows) ELSE tb.rows

\* the rows of the table's tbody, or all of its rows when it has none (line 147)
BodyRows(tb) == IF tb.tbody THEN RestRows(tb) ELSE tb.rows

RawTable(tb) ==
    Tag(<<>>)
        \o (IF tb.thead THEN Tag(<<>>) \o RawRow(Head(tb.rows)) \o Tag(<<>>) ELSE <<>>)
        \o (IF tb.tbody THEN Tag(<<>>) ELSE <<>>)
        \o RawRows(RestRows(tb))
        \o (IF tb.tbody THEN Tag(<<>>) ELSE <<>>)
        \o Tag(<<>>)

RawBlock(b) ==
    CASE b.t = "text" -> b.s
      [] b.t = "div" -> Tag(<<>>) \o b.s \o Tag(<<>>)
      [] b.t = "table" -> RawTable(b)

\* the html of the page, as fetch_html returns it
Raw(page) == Concat([i \in 1..Len(page) |-> RawBlock(page[i])])

\* whether m[i] is outside every tag: no "<" at or before it is still open
OutsideTags(m) ==
    [i \in 1..Len(m) |->
        MaxOrZero({j \in 1..i : m[j] = "<"}) <= MaxOrZero({j \in 1..(i - 1) : m[j] = ">"})]

\* the k-th smallest element of S
Kth(S, k) == CHOOSE x \in S : Cardinality({y \in S : y <= x}) = k

\* the text node that starts at m[from]
NodeFrom(m, out, from) ==
    SubSeq(m, from, MinOrZero({e \in from..Len(m) : e = Len(m) \/ ~out[e + 1]}))

NodesAt(m, out, starts) ==
    [k \in 1..Cardinality(starts) |-> NodeFrom(m, out, Kth(starts, k))]

NodesOutside(m, out) ==
    NodesAt(m, out, {i \in 1..Len(m) : out[i] /\ (i = 1 \/ ~out[i - 1])})

\* the text nodes of a piece of markup, in document order: the longest runs
\* of characters outside tags
TextNodes(m) == NodesOutside(m, OutsideTags(m))

\* " ".join(strings)
RECURSIVE Join(_)
Join(ss) ==
    IF ss = <<>> THEN <<>>
    ELSE IF Len(ss) = 1 THEN ss[1]
    ELSE ss[1] \o <<" ">> \o Join(Tail(ss))

\* the stripped strings that are not empty
Stripped(nodes) ==
    SelectSeq([i \in 1..Len(nodes) |-> Strip(nodes[i])], LAMBDA n : n # <<>>)

\* BeautifulSoup(m, "html.parser").get_text(" ", strip=True)
get_text(m) == Join(Stripped(TextNodes(m)))

(***************************************************************************)
(* The regular expressions.  A match is [ok |-> TRUE, g |-> group 1].      *)
(***************************************************************************)
NoMatch == [ok |-> FALSE]
Match(s, from, to) == [ok |-> TRUE, g |-> SubSeq(s, from, to)]

\* the first match of a sequence of attempts
FirstMatch(ms) ==
    IF \A k \in DOMAIN ms : ~ms[k].ok THEN NoMatch
    ELSE ms[MinOrZero({k \in DOMAIN ms : ms[k].ok})]

\* ([0-9\.\,\s]+) from s[start] on; start = 0: the group cannot start
GroupFrom(s, start) ==
    IF start = 0 THEN NoMatch
    ELSE Match(s, start, start + RunLen(s, start, NumChars) - 1)

\* where the group of YEN[İI][\s:]*([0-9\.\,\s]+) starts when the separators
\* are s[j..k-1]: they are taken greedily and handed back one at a time until
\* the group, which needs one character, can start
YenGroupStart(s, j, k) ==
    IF k <= Len(s) /\ IsNumChar(s[k]) THEN k
    ELSE MaxOrZero({p \in j..(k - 1) : IsSpace(s[p])})

\* YEN[İI][\s:]*([0-9\.\,\s]+) matched with its 'YENI' at s[i]
YenMatchAt(s, i) ==
    GroupFrom(s, YenGroupStart(s, i + 1, i + 1 + RunLen(s, i + 1, SpaceOrColonChars)))

\* the first match of that pattern whose 'YENI' is in s[from..to]
YenSearchIn(s, from, to) ==
    FirstMatch([p \in 1..Len(s) |->
        IF s[p] = "Y" /\ from <= p /\ p <= to THEN YenMatchAt(s, p) ELSE NoMatch])

\* re.search(r"YEN[İI][\s:]*([0-9\.\,\s]+)", s, re.IGNORECASE)
YenSearch(s) == YenSearchIn(s, 1, Len(s))

\* the bound of [\s\S]{0,4000}? in FALLBACK_REGEX
RegexWindow == 4000

\* FALLBACK_REGEX.search(s): the leftmost 'Cumhuriyet' that has, at most
\* RegexWindow characters after it, a 'YENI' at which the rest matches; of
\* these the nearest (the gap is lazy)
FallbackSearch(s) ==
    FirstMatch([ci \in 1..Len(s) |->
        IF s[ci] = "C" THEN YenSearchIn(s, ci + 1, ci + 1 + RegexWindow) ELSE NoMatch])

\* the group of YEN[İI]\s*[:\-]?\s*([0-9\.\,\s]{3,}): a spaces after 'YENI'
\* end before s[aEnd]; b spaces can be handed to the group, whose other r
\* characters start at s[rStart]; failing that, three spaces before a colon
AnchorGroup(s, a, aEnd, colon, b, rStart, r) ==
    IF b + r >= 3 THEN Match(s, rStart - Max(0, 3 - r), rStart + r - 1)
    ELSE IF colon /\ a >= 3 THEN Match(s, aEnd - 3, aEnd - 1)
    ELSE NoMatch

AnchorAfterColon(s, a, aEnd, b) ==
    AnchorGroup(s, a, aEnd, TRUE, b, aEnd + 1 + b, RunLen(s, aEnd + 1 + b, NumChars))

AnchorPlain(s, a, aEnd) ==
    AnchorGroup(s, a, aEnd, FALSE, a, aEnd, RunLen(s, aEnd, NumChars))

AnchorAfterSpaces(s, a, aEnd) ==
    IF aEnd <= Len(s) /\ IsDash(s[aEnd])
    THEN AnchorAfterColon(s, a, aEnd, RunLen(s, aEnd + 1, SpaceChars))
    ELSE AnchorPlain(s, a, aEnd)

AnchorAfterYen(s, j, a) == AnchorAfterSpaces(s, a, j + a)

\* that pattern matched with its 'YENI' at s[i]
AnchorMatchAt(s, i) == AnchorAfterYen(s, i + 1, RunLen(s, i + 1, SpaceChars))

\* re.search(r"YEN[İI]\s*[:\-]?\s*([0-9\.\,\s]{3,})", s, flags=re.IGNORECASE)
AnchorSearch(s) ==
    FirstMatch([p \in 1..Len(s) |->
        IF s[p] = "Y" THEN AnchorMatchAt(s, p) ELSE NoMatch])

\* re.findall(r"([0-9][0-9\.\,\s]{2,})", s), scanning from s[i]; run is the
\* number of [0-9\.\,\s] characters that follow s[i]
RECURSIVE FindAllFrom(_, _)
RECURSIVE FindAllStep(_, _, _)
FindAllStep(s, i, run) ==
    IF IsDigit(s[i]) /\ run >= 2
    THEN <<SubSeq(s, i, i + run)>> \o FindAllFrom(s, i + run + 1)
    ELSE FindAllFrom(s, i + 1)

FindAllFrom(s, i) ==
    IF i > Len(s) THEN <<>> ELSE FindAllStep(s, i, RunLen(s, i + 1, NumChars))

FindAllNumbers(s) == FindAllFrom(s, 1)

CellNumberAt(s, p, run) ==
    IF IsDigit(s[p]) /\ run >= 1 THEN Match(s, p, p + run) ELSE NoMatch

\* re.search(r"([0-9][0-9\.\,\s]{1,})", s)
CellNumberSearch(s) ==
    FirstMatch([p \in 1..Len(s) |-> CellNumberAt(s, p, RunLen(s, p + 1, NumChars))])

(***************************************************************************)
(* The four extraction strategies.  Each returns a Decimal or None.        *)
(***************************************************************************)
\* the plausibility threshold, Decimal(1000)
Threshold == 1000

IsTable(b) == b.t = "table"

\* "YEN" in (h or "").strip().upper()
HasYen(h) == Contains(h, "Y")

\* the first attribute value that holds a digit, or "" (lines 163-167)
AttrFallback(attrs) ==
    IF \A k \in DOMAIN attrs : \A n \in DOMAIN attrs[k] : ~IsDigit(attrs[k][n]) THEN <<>>
    ELSE attrs[MinOrZero({k \in DOMAIN attrs : \E n \in DOMAIN attrs[k] : IsDigit(attrs[k][n])})]

\* lines 161-167: the cell's text, else an attribute of the cell
CellRaw(cell, text) == IF text = <<>> THEN AttrFallback(cell.attrs) ELSE text

\* lines 170-171
NumTxt(raw, m) == IF m.ok THEN m.g ELSE raw

\* line 174
AtLeastThreshold(val) ==
    IF val # None /\ ~DecLtNat(val, Threshold) THEN val ELSE None

\* lines 169-176
CellValue(raw) ==
    AtLeastThreshold(turkish_number_to_decimal(NumTxt(raw, CellNumberSearch(raw))))

\* lines 149-176 for one row: the value this row returns, or None
TableRowValue(row, yeni_idx) ==
    IF ~Contains(get_text(RawRow(row)), "C") THEN None
    ELSE IF row = <<>> \/ yeni_idx > Len(row) THEN None
    ELSE CellValue(CellRaw(row[yeni_idx], Strip(row[yeni_idx].txt)))

\* lines 121-131: the cells of the thead, else of the first row
Headers(tb) ==
    IF tb.rows = <<>> THEN <<>>
    ELSE [i \in 1..Len(Head(tb.rows)) |-> Strip(Head(tb.rows)[i].txt)]

\* lines 137-142 (counted from 1; 0 for None)
YeniIdx(headers) == MinOrZero({i \in DOMAIN headers : HasYen(headers[i])})

\* lines 143-176
TableWithIdx(rows, yeni_idx) ==
    IF yeni_idx = 0 THEN None
    ELSE FirstNonNone([k \in 1..Len(rows) |-> TableRowValue(rows[k], yeni_idx)])

\* lines 120-176 for one table
TableValue(tb) == TableWithIdx(BodyRows(tb), YeniIdx(Headers(tb)))

TableValues(tables) == [k \in 1..Len(tables) |-> TableValue(tables[k])]

parse_price_via_table(page) == FirstNonNone(TableValues(SelectSeq(page, IsTable)))

\* the markup of the element that holds row r of the table: its thead, its
\* tbody, or the table itself
RowParentRaw(tb, r) ==
    IF tb.thead /\ r = 1 THEN RawRow(tb.rows[1])
    ELSE IF tb.tbody THEN RawRows(RestRows(tb))
    ELSE RawTable(tb)

\* the markup of the container of a text node found in block b, row r:
\* its row, else its parent (lines 81-82)
ContainerRaw(page, b, r) ==
    CASE b.t = "text" -> Raw(page)
      [] b.t = "div" -> b.s
      [] b.t = "table" -> RawRow(b.rows[r])

\* the markup of the container's parent (line 96)
ParentRaw(page, b, r) ==
    CASE b.t = "text" -> <<>>
      [] b.t = "div" -> Raw(page)
      [] b.t = "table" -> RowParentRaw(b, r)

\* the text nodes of block b that hold 'Cumhuriyet', each as the row it is in
\* (0 outside a table)
RECURSIVE RowsWithC(_, _)
RowsWithC(rows, r) ==
    IF r > Len(rows) THEN <<>>
    ELSE [i \in 1..Cardinality({k \in DOMAIN rows[r] : Contains(rows[r][k].txt, "C")}) |-> r]
            \o RowsWithC(rows, r + 1)

NodesWithC(b) ==
    IF b.t = "table" THEN RowsWithC(b.rows, 1)
    ELSE [i \in 1..Cardinality({k \in DOMAIN TextNodes(b.s) :
                                   Contains(TextNodes(b.s)[k], "C")}) |-> 0]

\* the text of the container and of its parent
Candidate(page, b, r) ==
    [ctx |-> ContainerRaw(page, b, r), hasParent |-> b.t # "text",
     par |-> ParentRaw(page, b, r)]

BlockCandidates(page, b, rs) == [i \in 1..Len(rs) |-> Candidate(page, b, rs[i])]

\* soup.find_all(string=re.compile(r"Cumhuriyet", re.IGNORECASE)), line 79
Candidates(page) ==
    Concat([i \in 1..Len(page) |-> BlockCandidates(page, page[i], NodesWithC(page[i]))])

\* re.search in the text of an element, and the number it captured
\* (lines 87-91, 98-102)
YenValueOf(m) == IF m.ok THEN turkish_number_to_decimal(m.g) ELSE None

YenValue(markup) == YenValueOf(YenSearch(get_text(markup)))

\* lines 86-104 for one candidate: the container, then its parent
Bs4Value(cand) ==
    FirstNonNone([i \in 1..(IF cand.hasParent THEN 2 ELSE 1) |->
                    YenValue(IF i = 1 THEN cand.ctx ELSE cand.par)])

Bs4Values(cands) == [k \in 1..Len(cands) |-> Bs4Value(cands[k])]

parse_price_with_bs4(page) == FirstNonNone(Bs4Values(Candidates(page)))

\* lines 186-191
RegexValue(m) == IF m.ok THEN turkish_number_to_decimal(m.g) ELSE None

parse_price_with_regex(page) == RegexValue(FallbackSearch(Raw(page)))

\* the width of the window after a 'Cumhuriyet' (line 201)
NeighborhoodWindow == 5000

\* html[start : start + 5000] as plain text (lines 200-204)
WindowText(raw, start) ==
    get_text(SubSeq(raw, start, Min(Len(raw), start + NeighborhoodWindow - 1)))

\* lines 220-228: not a pile of zeros, a number, not below the threshold
AcceptedClean(c_clean, val) ==
    IF c_clean # <<>> /\ \A i \in 1..Len(c_clean) : IsZeroNoise(c_clean[i]) THEN None
    ELSE IF val = None THEN None
    ELSE IF DecLtNat(val, Threshold) THEN None
    ELSE val

AcceptedStripped(c_clean) == AcceptedClean(c_clean, turkish_number_to_decimal(c_clean))

\* lines 218-228 for one candidate: its value, or None when it is dropped
Accepted(c) == AcceptedStripped(Strip(c))

\* lines 207-210
AnchoredCandidates(m2) == IF m2.ok THEN <<m2.g>> ELSE <<>>

\* the candidates of one window: the block after 'YENI' first, then every
\* block that looks like a number (lines 207-213)
WindowCandidates(text) == AnchoredCandidates(AnchorSearch(text)) \o FindAllNumbers(text)

\* lines 216-228
Parsed(cs) == SelectSeq([i \in 1..Len(cs) |-> Accepted(cs[i])], LAMBDA v : v # None)

\* lines 230-233
Best(parsed) == IF parsed = <<>> THEN None ELSE DecMax(parsed)

WindowBest(text) == Best(Parsed(WindowCandidates(text)))

\* lines 199-233: the first 'Cumhuriyet' whose window yields a value
NeighborhoodOf(raw) ==
    FirstNonNone([start \in 1..Len(raw) |->
        IF raw[start] = "C" THEN WindowBest(WindowText(raw, start)) ELSE None])

parse_price_neighborhood(page) == NeighborhoodOf(Raw(page))

(***************************************************************************)
(* The state file, the message                                             *)
(***************************************************************************)
Absent == [kind |-> "absent"]
Corrupt == [kind |-> "corrupt"]
Record(p, t) == [kind |-> "record", last_price |-> p, updated_at |-> t]

\* no file, or a file json.load or Decimal() rejects: None; else its last_price
load_last_price(f) ==
    IF f.kind = "record" THEN [c |-> f.last_price, e |-> 0] ELSE None

\* the payload save_last_price writes at time t (lines 260-263)
Payload(p, t) == Record(Quantize(p).c, t)

RECURSIVE NatToDigits(_)
NatToDigits(n) ==
    IF n < 10 THEN <<DigitChars[n + 1]>>
    ELSE Append(NatToDigits(n \div 10), DigitChars[(n % 10) + 1])

\* f"{as_int:,}".replace(",", "."): a separator before every group of three
\* digits counted from the right
RECURSIVE GroupThousands(_)
GroupThousands(ds) ==
    IF Len(ds) <= 3 THEN ds
    ELSE GroupThousands(SubSeq(ds, 1, Len(ds) - 3)) \o <<".">>
            \o SubSeq(ds, Len(ds) - 2, Len(ds))

format_tl(n) == GroupThousands(NatToDigits(Quantize(n).c))

\* a variant of build_message that formats the prices without separators
build_message_ungrouped(old_price, new_price) ==
    [eski |-> NatToDigits(Quantize(old_price).c),
     yeni |-> NatToDigits(Quantize(new_price).c)]

\* the two lines of the message that depend on the prices (lines 282-283)
build_message(old_price, new_price) ==
    [eski |-> format_tl(old_price), yeni |-> format_tl(new_price)]

(***************************************************************************)
(* The pages the site may serve.                                           *)
(***************************************************************************)
NumTexts ==
    { <<"9", "9", "9">>,
      <<"1", ".", "0", "0", "0">>,
      <<"1", ".", "0", "0", "0", ",", "5">>,
      <<"1", ".", "0", "0", "1", ",", "5">>,
      <<"2", ".", "5", "0", "0">>,
      <<"0", ".", "0", "0", "0">> }

\* between 'Cumhuriyet' and 'YENI'
LabelGaps == { <<" ">>, Tag(<<>>) }

\* between 'YENI' and the number: what the fallback pattern skips
ValueGaps == { <<":", " ">>, Tag(<<>>) }

\* between 'YENI' and the number: what the fallback pattern does not skip
OtherGaps == { <<" ", "x", " ">>, <<" ", "-", " ">> }

FewNumTexts ==
    { <<"9", "9", "9">>, <<"1", ".", "0", "0", "0">>, <<"0", ".", "0", "0", "0">> }

\* after the number: another, larger number
LargerTail == <<" ", "x", " ", "3", ".", "0", "0", "0", " ", "x">>

TextPage(k, g1, g2, n, tl) ==
    << [t |-> k, s |-> <<"C">> \o g1 \o <<"Y">> \o g2 \o n \o tl] >>

TextPages ==
    { TextPage("text", <<" ">>, g2, n, <<>>) : g2 \in ValueGaps, n \in NumTexts }
    \cup { TextPage("text", <<" ">>, g2, n, <<>>) :
              g2 \in OtherGaps,
              n \in FewNumTexts \cup {<<"1", ".", "0", "0", "0", ",", "5">>} }
    \cup { TextPage("div", <<" ">>, <<":", " ">>, n, <<>>) : n \in FewNumTexts }
    \cup { TextPage("text", Tag(<<>>), g2, n, LargerTail) :
              g2 \in {<<":", " ">>, <<" ", "-", " ">>}, n \in FewNumTexts }

\* a 'YENI' with no number before the 'Cumhuriyet'
LeadingPages ==
    { << [t |-> "text", s |-> <<"Y", " ", "x", " ", "C", " ", "Y", ":", " ">> \o n] >> :
        n \in {<<"9", "9", "9">>, <<"1", ".", "0", "0", "1", ",", "5">>} }

Cell(txt) == [txt |-> txt, attrs |-> <<>>]

LabelHeader == Cell(<<"x">>)
YeniHeader == Cell(<<"Y">>)

ValueCells ==
    { Cell(n) : n \in {<<"9", "9", "9">>, <<"1", ".", "0", "0", "0", ",", "5">>,
                       <<"2", ".", "5", "0", "0", " ", "x">>} }
    \cup { [txt |-> <<>>, attrs |-> <<<<"x">>, <<"2", "5", "0", "0">>>>],
           Cell(<<"x">>) }

OtherRow == <<Cell(<<"x">>), Cell(<<"3", ".", "0", "0", "0">>)>>

TablePage(th, tb, h, v) ==
    << [t |-> "table", thead |-> th, tbody |-> tb,
        rows |-> <<h, OtherRow, <<Cell(<<"C">>), v>>>>] >>

TablePages ==
    { TablePage(b, b, <<LabelHeader, YeniHeader>>, v) :
        b \in BOOLEAN, v \in ValueCells }
    \cup { TablePage(b, ~b, <<LabelHeader, YeniHeader>>, Cell(<<"9", "9", "9">>)) :
              b \in BOOLEAN }
    \cup { TablePage(FALSE, FALSE, <<LabelHeader, LabelHeader>>, v) :
        v \in {Cell(<<"9", "9", "9">>), Cell(<<"1", ".", "0", "0", "0", ",", "5">>)} }

\* no 'Cumhuriyet' at all; 'Cumhuriyet' with no number near it
BarePages ==
    { << [t |-> "text", s |-> <<"x", " ", "Y", " ", "2", ".", "5", "0", "0">>] >>,
      << [t |-> "div", s |-> <<"C", " ", "x">>] >> }

Pages == TextPages \cup LeadingPages \cup TablePages \cup BarePages

\* what each strategy returns on each page (the strategies are pure)
Extraction ==
    [p \in Pages |->
        [table |-> parse_price_via_table(p),
         bs4 |-> parse_price_with_bs4(p),
         regex |-> parse_price_with_regex(p),
         neighborhood |-> parse_price_neighborhood(p)]]

\* fetch_html returned None
NoHtml == <<>>

(***************************************************************************)
(* The runs of main()                                                      *)
(***************************************************************************)
MaxRuns == 2

max_retries == 3

VARIABLES
    pc,          \* where main() is: "idle" before the first run
    runs,        \* the number of runs started; the run's clock
    file,        \* state/last_price.json
    attempt,     \* fetch_html: attempt
    backoff,     \* fetch_html: backoff
    gets,        \* fetch_html: the GETs made in this run
    failed,      \* fetch_html: how many of them failed
    sleeps,      \* fetch_html: the sleeps made in this run
    html,        \* main: html (the page served, NoHtml for None)
    price,       \* main: price
    last,        \* main: last
    called,      \* the strategies invoked in this run, in order
    results,     \* what each of them returned
    msgs,        \* the messages built in this run
    secrets,     \* notify_telegram: "set" or "missing" once read, else "unread"
    posts,       \* the messages POSTed to Telegram in this run
    delivered,   \* whether Telegram answered 200
    writes,      \* the successful writes of the state file in this run
    fileAtStart, \* the state file when the run started
    exitCode,    \* "0", "exception", or "running"
    prevPrice,   \* the rounded price of the latest earlier run that extracted one
    writeFailed  \* whether any write of the state file has failed so far

vars == <<pc, runs, file, attempt, backoff, gets, failed, sleeps, html, price,
          last, called, results, msgs, secrets, posts, delivered, writes,
          fileAtStart, exitCode, prevPrice, writeFailed>>

fetchVars == <<attempt, backoff, gets, failed, sleeps>>
parseVars == <<price, called, results>>
notifyVars == <<msgs, secrets, posts, delivered>>
historyVars == <<fileAtStart, prevPrice>>

\* the value the strategies of this run extracted, before main() rounds it
Extracted == IF results = <<>> THEN None ELSE results[Len(results)]

Init ==
    /\ pc = "idle"
    /\ runs = 0
    /\ file = Absent
    /\ attempt = 1
    /\ backoff = 1
    /\ gets = 0
    /\ failed = 0
    /\ sleeps = <<>>
    /\ html = NoHtml
    /\ price = None
    /\ last = None
    /\ called = <<>>
    /\ results = <<>>
    /\ msgs = <<>>
    /\ secrets = "unread"
    /\ posts = <<>>
    /\ delivered = FALSE
    /\ writes = 0
    /\ fileAtStart = Absent
    /\ exitCode = "running"
    /\ prevPrice = None
    /\ writeFailed = FALSE

\* the scheduler starts the next run once the previous one has ended
StartRun ==
    /\ pc \in {"idle", "done"}
    /\ runs < MaxRuns
    /\ runs' = runs + 1
    /\ pc' = "fetch"
    /\ attempt' = 1
    /\ backoff' = 1
    /\ gets' = 0
    /\ failed' = 0
    /\ sleeps' = <<>>
    /\ html' = NoHtml
    /\ price' = None
    /\ last' = None
    /\ called' = <<>>
    /\ results' = <<>>
    /\ msgs' = <<>>
    /\ secrets' = "unread"
    /\ posts' = <<>>
    /\ delivered' = FALSE
    /\ writes' = 0
    /\ fileAtStart' = file
    /\ exitCode' = "running"
    /\ prevPrice' = IF price # None THEN price ELSE prevPrice
    /\ UNCHANGED <<file, writeFailed>>

\* fetch_html, one attempt: status 200 and a body (lines 48-51)
FetchOk ==
    /\ pc = "fetch"
    /\ \E page \in Pages : html' = page
    /\ gets' = gets + 1
    /\ pc' = "table"
    /\ UNCHANGED <<runs, file, attempt, backoff, failed, sleeps, last, parseVars,
                   notifyVars, writes, historyVars, exitCode, writeFailed>>

\* a variant of FetchRetry that sleeps without doubling the backoff
FetchRetryFlatBackoff ==
    /\ pc = "fetch"
    /\ attempt < max_retries
    /\ gets' = gets + 1
    /\ failed' = failed + 1
    /\ sleeps' = Append(sleeps, backoff)
    /\ attempt' = attempt + 1
    /\ UNCHANGED <<pc, runs, file, backoff, html, last, parseVars, notifyVars,
                   writes, historyVars, exitCode, writeFailed>>

\* one attempt that is not the last fails: sleep, double the backoff (lines 52-57)
FetchRetry ==
    /\ pc = "fetch"
    /\ attempt < max_retries
    /\ \E failure \in {"RequestException", "status", "empty"} : TRUE
    /\ gets' = gets + 1
    /\ failed' = failed + 1
    /\ sleeps' = Append(sleeps, backoff)
    /\ backoff' = backoff * 2
    /\ attempt' = attempt + 1
    /\ UNCHANGED <<pc, runs, file, html, last, parseVars, notifyVars, writes,
                   historyVars, exitCode, writeFailed>>

\* the last attempt fails: fetch_html returns None and main returns 0
\* (lines 58-59, 307-309)
FetchGiveUp ==
    /\ pc = "fetch"
    /\ ~(attempt < max_retries)
    /\ \E failure \in {"RequestException", "status", "empty"} : TRUE
    /\ gets' = gets + 1
    /\ failed' = failed + 1
    /\ html' = NoHtml
    /\ pc' = "done"
    /\ exitCode' = "0"
    /\ UNCHANGED <<runs, file, attempt, backoff, sleeps, last, parseVars,
                   notifyVars, writes, historyVars, writeFailed>>

\* price = strategy(html), recorded
Invoke(name, value) ==
    /\ price' = value
    /\ called' = Append(called, name)
    /\ results' = Append(results, value)

\* line 312
TryTable ==
    /\ pc = "table"
    /\ Invoke("table", Extraction[html].table)
    /\ pc' = "bs4"
    /\ UNCHANGED <<runs, file, fetchVars, html, last, notifyVars, writes,
                   historyVars, exitCode, writeFailed>>

\* lines 315-316
TryBs4 ==
    /\ pc = "bs4"
    /\ IF price = None THEN Invoke("bs4", Extraction[html].bs4)
       ELSE UNCHANGED parseVars
    /\ pc' = "regex"
    /\ UNCHANGED <<runs, file, fetchVars, html, last, notifyVars, writes,
                   historyVars, exitCode, writeFailed>>

\* a variant of TryRegex that does not test whether a price was found
TryRegexUnguarded ==
    /\ pc = "regex"
    /\ Invoke("regex", Extraction[html].regex)
    /\ pc' = "neighborhood"
    /\ UNCHANGED <<runs, file, fetchVars, html, last, notifyVars, writes,
                   historyVars, exitCode, writeFailed>>

\* lines 319-320
TryRegex ==
    /\ pc = "regex"
    /\ IF price = None THEN Invoke("regex", Extraction[html].regex)
       ELSE UNCHANGED parseVars
    /\ pc' = "neighborhood"
    /\ UNCHANGED <<runs, file, fetchVars, html, last, notifyVars, writes,
                   historyVars, exitCode, writeFailed>>

\* lines 323-324
TryNeighborhood ==
    /\ pc = "neighborhood"
    /\ IF price = None THEN Invoke("neighborhood", Extraction[html].neighborhood)
       ELSE UNCHANGED parseVars
    /\ pc' = "compare"
    /\ UNCHANGED <<runs, file, fetchVars, html, last, notifyVars, writes,
                   historyVars, exitCode, writeFailed>>

\* a variant of NoPrice that reports the failure to the runner
NoPriceExitsNonZero ==
    /\ pc = "compare"
    /\ price = None
    /\ pc' = "done"
    /\ exitCode' = "1"
    /\ UNCHANGED <<runs, file, fetchVars, html, last, parseVars, notifyVars,
                   writes, historyVars, writeFailed>>

\* lines 326-328: nothing extracted
NoPrice ==
    /\ pc = "compare"
    /\ price = None
    /\ pc' = "done"
    /\ exitCode' = "0"
    /\ UNCHANGED <<runs, file, fetchVars, html, last, parseVars, notifyVars,
                   writes, historyVars, writeFailed>>

\* a variant of Compare that treats every price as a change
CompareAlwaysChanged ==
    /\ pc = "compare"
    /\ price # None
    /\ price' = Quantize(price)
    /\ last' = load_last_price(file)
    /\ pc' = IF last' = None THEN "save" ELSE "notify"
    /\ UNCHANGED <<runs, file, fetchVars, html, called, results, notifyVars,
                   writes, historyVars, exitCode, writeFailed>>

\* lines 330-343 up to the branch: round, load, compare
Compare ==
    /\ pc = "compare"
    /\ price # None
    /\ price' = Quantize(price)
    /\ last' = load_last_price(file)
    /\ IF last' = None THEN pc' = "save" /\ exitCode' = exitCode
       ELSE IF ~DecEq(price', last') THEN pc' = "notify" /\ exitCode' = exitCode
       ELSE pc' = "done" /\ exitCode' = "0"
    /\ UNCHANGED <<runs, file, fetchVars, html, called, results, notifyVars,
                   writes, historyVars, writeFailed>>

\* line 339: build the message; notify_telegram posts it when both secrets
\* are set, and only logs whatever comes back
Notify ==
    /\ pc = "notify"
    /\ msgs' = Append(msgs, build_message(last, price))
    /\ \E env \in {"set", "missing"}, answer \in {"200", "status", "RequestException"} :
          /\ secrets' = env
          /\ posts' = IF env = "set" THEN Append(posts, build_message(last, price))
                      ELSE posts
          /\ delivered' = (env = "set" /\ answer = "200")
    /\ pc' = "save"
    /\ UNCHANGED <<runs, file, fetchVars, html, price, last, called, results,
                   writes, historyVars, exitCode, writeFailed>>

\* a variant of SaveOk that keeps the old record when the notification
\* was not delivered
SaveOkOnlyIfDelivered ==
    /\ pc = "save"
    /\ file' = IF msgs # <<>> /\ ~delivered THEN file ELSE Payload(price, runs)
    /\ writes' = IF msgs # <<>> /\ ~delivered THEN writes ELSE writes + 1
    /\ pc' = "done"
    /\ exitCode' = "0"
    /\ UNCHANGED <<runs, fetchVars, html, price, last, called, results,
                   notifyVars, historyVars, writeFailed>>

\* save_last_price writes the file (lines 334-335, 340)
SaveOk ==
    /\ pc = "save"
    /\ file' = Payload(price, runs)
    /\ writes' = writes + 1
    /\ pc' = "done"
    /\ exitCode' = "0"
    /\ UNCHANGED <<runs, fetchVars, html, price, last, called, results,
                   notifyVars, historyVars, writeFailed>>

\* mkdir, open or json.dump raises OSError: nothing catches it; the file is
\* untouched, or left truncated when open() had succeeded
SaveFail ==
    /\ pc = "save"
    /\ \E truncated \in BOOLEAN : file' = IF truncated THEN Corrupt ELSE file
    /\ writeFailed' = TRUE
    /\ pc' = "done"
    /\ exitCode' = "exception"
    /\ UNCHANGED <<runs, fetchVars, html, price, last, called, results,
                   notifyVars, writes, historyVars>>

Next ==
    \/ StartRun
    \/ FetchOk
    \/ FetchRetry
    \/ FetchGiveUp
    \/ TryTable
    \/ TryBs4
    \/ TryRegex
    \/ TryNeighborhood
    \/ NoPrice
    \/ Compare
    \/ Notify
    \/ SaveOk
    \/ SaveFail

Spec == Init /\ [][Next]_vars

(***************************************************************************)
(* What the claims are stated with                                         *)
(***************************************************************************)
StrategyOrder == <<"table", "bs4", "regex", "neighborhood">>

\* the run has ended and its strategies extracted a value
Extracting == pc = "done" /\ Extracted # None

\* n is d rounded to the nearest integer, a tie going to the even one
IsRoundedHalfEven(n, d) ==
    /\ 2 * (n * Pow10(d.e) - d.c) <= Pow10(d.e)
    /\ 2 * (d.c - n * Pow10(d.e)) <= Pow10(d.e)
    /\ (2 * (n * Pow10(d.e) - d.c) = Pow10(d.e) \/ 2 * (d.c - n * Pow10(d.e)) = Pow10(d.e))
            => n % 2 = 0

\* text is n in decimal digits with a '.' before every group of three digits
\* counted from the right, and nowhere else
IsDotGrouped(text, n) ==
    /\ text # <<>>
    /\ \A i \in 1..Len(text) : (text[i] = ".") = ((Len(text) - i + 1) % 4 = 0)
    /\ \A i \in 1..Len(text) : text[i] = "." \/ IsDigit(text[i])
    /\ text[1] # "." /\ (text[1] = "0" => Len(text) = 1)
    /\ DigitsToNat(SelectSeq(text, IsDigit)) = n

\* the state file holds the record [last_price |-> n] written in this run
PersistedNow(n) == file = Record(n, runs)

NothingNotified == msgs = <<>> /\ posts = <<>> /\ ~delivered

NothingWritten == writes = 0 /\ file = fileAtStart

\* in the window the Neighborhood-Scan returned from: the value of the block
\* after 'YENI' when that block is accepted, else None
AnchoredInWindow(text) ==
    FirstNonNone([i \in 1..Len(AnchoredCandidates(AnchorSearch(text))) |->
                    Accepted(AnchoredCandidates(AnchorSearch(text))[i])])

\* where the window the strategy returned from begins (0: it returned None)
ReturningStart(raw) ==
    MinOrZero({p \in 1..Len(raw) :
                 raw[p] = "C" /\ WindowBest(WindowText(raw, p)) # None})

AnchoredAt(raw, start) ==
    IF start = 0 THEN None ELSE AnchoredInWindow(WindowText(raw, start))

Anchored == [p \in Pages |-> AnchoredAt(Raw(p), ReturningStart(Raw(p)))]

(***************************************************************************)
(* C1: the strategies are invoked in the order table, bs4, regex,          *)
(* neighborhood; a strategy is invoked only while every earlier one has    *)
(* returned None, so none is invoked after one returned a value; and a run *)
(* ends with no price only after all four were invoked and returned None.  *)
(***************************************************************************)
C1_StrategyOrder ==
    /\ Len(called) <= Len(StrategyOrder)
    /\ called = SubSeq(StrategyOrder, 1, Len(called))
    /\ Len(results) = Len(called)
    /\ \A i \in 1..(Len(called) - 1) : results[i] = None
    /\ (pc \in {"compare", "notify", "save", "done"} /\ html # NoHtml /\ price = None)
            => /\ called = StrategyOrder
               /\ \A i \in 1..Len(results) : results[i] = None

\* bs4 returned a value after table returned None, and the run ended with
\* no later strategy invoked
C1_Witness ==
    /\ pc = "done"
    /\ called = <<"table", "bs4">>
    /\ results[1] = None /\ results[2] # None

(***************************************************************************)
(* C2: no strategy returns a value below 1000.                             *)
(***************************************************************************)
C2_NoValueBelowThreshold ==
    \A i \in 1..Len(results) : results[i] = None \/ ~DecLtNat(results[i], Threshold)

(***************************************************************************)
(* C3, as claimed: a run that loads no previous record and extracts V ends *)
(* with V as the persisted last_price and no notification (here even       *)
(* restricted to the runs that end with exit code 0).                      *)
(***************************************************************************)
C3_BaselinePersistsV ==
    (Extracting /\ last = None /\ exitCode = "0")
        => /\ file.kind = "record"
           /\ DecEq([c |-> file.last_price, e |-> 0], Extracted)
           /\ NothingNotified

(***************************************************************************)
(* C3, amended: a run that loads no previous record and extracts V builds  *)
(* and sends no notification, and when its write of the state file         *)
(* succeeds the persisted last_price is V rounded to the nearest integer,  *)
(* ties to even.                                                           *)
(***************************************************************************)
C3_BaselinePersistsRounded ==
    (Extracting /\ last = None)
        => /\ NothingNotified
           /\ writes <= 1
           /\ writes = 1 => /\ PersistedNow(file.last_price)
                            /\ IsRoundedHalfEven(file.last_price, Extracted)

\* a baseline run whose value had a fraction and was written
C3_Witness ==
    /\ Extracting /\ last = None /\ writes = 1
    /\ FracPart(Extracted) # 0
    /\ fileAtStart = Corrupt

(***************************************************************************)
(* C4, as claimed: a run that loads the previous record P and extracts a   *)
(* V that differs from P sends exactly one notification, whose text holds  *)
(* P and V with '.' thousands separators, and ends with V persisted (here  *)
(* even restricted to the runs that end with exit code 0).                 *)
(***************************************************************************)
C4_ChangedNotifiesOnce ==
    (Extracting /\ last # None /\ ~DecEq(Extracted, last) /\ exitCode = "0")
        => /\ Len(posts) = 1
           /\ IsDotGrouped(posts[1].eski, last.c)
           /\ IsDotGrouped(posts[1].yeni, file.last_price)
           /\ PersistedNow(file.last_price)
           /\ DecEq([c |-> file.last_price, e |-> 0], Extracted)

(***************************************************************************)
(* C4, amended: a run that loads the previous record P and extracts a V    *)
(* whose rounding R (nearest integer, ties to even) differs from P builds  *)
(* exactly one message, which holds P and R with '.' thousands separators; *)
(* it posts that message exactly once when both Telegram secrets are set   *)
(* and not at all when one is missing; and when its write of the state     *)
(* file succeeds the persisted last_price is R.                            *)
(***************************************************************************)
C4_ChangedAmended ==
    (Extracting /\ last # None /\ ~IsRoundedHalfEven(last.c, Extracted))
        => /\ Len(msgs) = 1
           /\ IsDotGrouped(msgs[1].eski, last.c)
           /\ \E r \in IntPart(Extracted)..(IntPart(Extracted) + 1) :
                 /\ IsRoundedHalfEven(r, Extracted)
                 /\ IsDotGrouped(msgs[1].yeni, r)
                 /\ writes = 1 => PersistedNow(r)
           /\ writes <= 1
           /\ secrets = "set" => posts = msgs
           /\ secrets = "missing" => posts = <<>>
           /\ secrets # "unread"

\* 1.000 became 1.002 (from 1.001,5): posted once and persisted
C4_Witness ==
    /\ Extracting /\ last # None /\ ~IsRoundedHalfEven(last.c, Extracted)
    /\ FracPart(Extracted) # 0
    /\ last.c >= Threshold
    /\ Len(posts) = 1 /\ writes = 1

(***************************************************************************)
(* C5: a run that loads the previous record V and extracts a value equal   *)
(* to V does not write the state file (last_price and updated_at stay as   *)
(* they were) and sends no notification.                                   *)
(***************************************************************************)
C5_UnchangedNoWrite ==
    (Extracting /\ last # None /\ DecEq(Extracted, last))
        => NothingWritten /\ NothingNotified /\ file.kind = "record"

C5_Witness ==
    /\ Extracting /\ last # None /\ DecEq(Extracted, last)
    /\ file.updated_at < runs

(***************************************************************************)
(* C6: a run whose fetch fails, or whose four strategies all return None,  *)
(* writes nothing, sends no notification, and returns exit code 0.         *)
(***************************************************************************)
C6_NoPriceNoEffect ==
    (pc = "done" /\ (html = NoHtml \/ Extracted = None))
        => NothingWritten /\ NothingNotified /\ exitCode = "0"

\* all four strategies returned None while a record was on file
C6_Witness ==
    /\ pc = "done" /\ html # NoHtml /\ Len(results) = 4 /\ Extracted = None
    /\ file.kind = "record"

(***************************************************************************)
(* C7: every run ends with exit code 0, whichever of the fetch, the        *)
(* parse, the write of the state file or the notification failed.          *)
(***************************************************************************)
C7_FailuresSwallowed == pc = "done" => exitCode = "0"

(***************************************************************************)
(* C8: when the block after 'YENI' in the window the Neighborhood-Scan     *)
(* returns from is accepted, the strategy returns that block's value.      *)
(***************************************************************************)
C8_AnchoredPreferred ==
    (Len(called) = 4 /\ results[4] # None /\ Anchored[html] # None)
        => DecEq(results[4], Anchored[html])

(***************************************************************************)
(* C9: fetch_html makes at most max_retries = 3 GETs; it returns the body  *)
(* at the first GET that succeeds and makes no further one; it sleeps 1,   *)
(* then 2 seconds, once after every failed GET but the last; it returns    *)
(* None exactly when all 3 GETs failed.                                    *)
(***************************************************************************)
C9_FetchBounded ==
    /\ gets <= max_retries
    /\ sleeps = SubSeq(<<1, 2>>, 1, Len(sleeps))
    /\ pc = "fetch" => failed = gets /\ Len(sleeps) = failed
    /\ pc \notin {"idle", "fetch"} =>
          /\ html # NoHtml => failed = gets - 1 /\ Len(sleeps) = failed
          /\ html = NoHtml => failed = gets /\ Len(sleeps) = failed - 1
          /\ (html = NoHtml) = (failed = max_retries)

\* the third GET succeeded after two failures and two sleeps
C9_Witness == pc = "table" /\ gets = 3 /\ failed = 2 /\ sleeps = <<1, 2>>

=============================================================================
